---- MODULE Spec2Model ----
(***************************************************************************)
(* Crop-Advisor: the rule-based crop scorer (simple_predictor.py), the     *)
(* classifier top-3 reduction and the /predictcrop handler (app.py) and    *)
(* the climate risk engine (modules/weather.py).                           *)
(*                                                                         *)
(* Numbers.  The program computes on Python floats; the model uses fixed   *)
(* point integers:                                                         *)
(*   - scorer inputs n, p, k, temperature, rainfall, ph: tenths            *)
(*     (n = 805 is 80.5);                                                  *)
(*   - scores and confidences of the scorer: whole points;                 *)
(*   - probabilities: units of 10^-5; classifier confidences: hundredths   *)
(*     of a percent point (7000 is 70.00);                                 *)
(*   - risk engine temperature and humidity: tenths; rainfall: mm;         *)
(*   - the ranker's confidences: hundredths, its adjustments: whole points.*)
(***************************************************************************)
EXTENDS Integers, Sequences, FiniteSets, TLC

VARIABLES
    sp_pc,      \* predict_crops_simple: "call" | "done" | "idle"
    sp_in,      \* its arguments
    scores,     \* its local dict scores: crop -> min(100, score)
    sp_ret,     \* its return value: sequence of [name, confidence]
    rd_pc,          \* app.py lines 303-336: "call" | "done" | "idle"
    probabilities,  \* model.predict_proba(features)[0]
    top_3_indices,  \* np.argsort(probabilities)[-3:][::-1], class indices from 1
    top_3_crops,    \* sequence of [name, confidence]
    rk_pc,      \* calculate_risk_scores: "call" | "done" | "idle"
    rk_in,      \* its arguments, the engine's api_key and the lookup's outcome
    rk_ret,     \* its return value, or [raised |-> ...]
    ra_pc,      \* get_risk_adjusted_crops: "call" | "once" | "twice" | "idle"
    ra_in,      \* its arguments as the caller made them
    ra_dicts,   \* the dicts of the caller's list, by identity, as they are now
    ra_adj,     \* the local score_adj of each iteration of the last call
    ra_ret,     \* the list the last call returned: identities of dicts
    ra_first,   \* what the caller read through the first call's list
    cc_in,        \* two concurrent calls: the shared list and each call's risk scores
    cc_dicts,     \* the dicts of the shared list, by identity, as they are now
    cc_pc,        \* each call's position: "loop" | "done" | "idle"
    cc_adjusted,  \* each call's local list adjusted
    cc_ret,       \* what each call's caller read through the returned list
    users,          \* app.py: the rows of table User
    session,        \* the browser's session: [user_id |-> id], or [] empty
    model_bundle,   \* the global _model_bundle: "None" | "empty" ({}) | "loaded"
    model_file,     \* whether joblib.load of models/crop_model.pkl succeeds
    risk_engine,    \* the global _risk_engine: "None" | [api_key |-> BOOLEAN]
    predictions,    \* the rows of table Prediction, oldest first
    crop_collection,  \* the global _crop_collection: "None" | "connected"
    feedbacks,      \* the rows of table Feedback, oldest first
    agri_bot,       \* whether the global _agri_bot is set
    analytics_engine,  \* whether the global _analytics_engine is set
    request,        \* the request handled last, with what its collaborators did
    response        \* the response to it

scorer_vars == <<sp_pc, sp_in, scores, sp_ret>>
reducer_vars == <<rd_pc, probabilities, top_3_indices, top_3_crops>>
risk_vars == <<rk_pc, rk_in, rk_ret>>
ranker_vars == <<ra_pc, ra_in, ra_dicts, ra_adj, ra_ret, ra_first>>
concurrent_vars == <<cc_in, cc_dicts, cc_pc, cc_adjusted, cc_ret>>
app_vars == <<users, session, model_bundle, model_file, risk_engine, predictions,
              crop_collection, feedbacks, agri_bot, analytics_engine, request, response>>
vars == <<scorer_vars, reducer_vars, risk_vars, ranker_vars, concurrent_vars, app_vars>>

Abs(x) == IF x < 0 THEN -x ELSE x
Min(a, b) == IF a <= b THEN a ELSE b
Max(a, b) == IF a >= b THEN a ELSE b
Last(s) == s[Len(s)]
Front(s) == SubSeq(s, 1, Len(s) - 1)

(***************************************************************************)
(* simple_predictor.py: the crop database.  Ranges are in the source's     *)
(* units, except ph_range, which is in tenths (5.5 is 55).                 *)
(***************************************************************************)
CropOrder == <<"Rice", "Wheat", "Maize", "Cotton", "Millets", "Pulses", "Sugarcane", "Jute">>

crops_db ==
    [Rice |-> [n_range |-> <<80, 120>>, p_range |-> <<40, 60>>, k_range |-> <<40, 60>>,
               temp_range |-> <<20, 35>>, rainfall_min |-> 1000, ph_range |-> <<55, 70>>,
               soils |-> {"Clayey", "Loamy"}, seasons |-> {"Kharif", "Monsoon"}],
     Wheat |-> [n_range |-> <<100, 140>>, p_range |-> <<40, 80>>, k_range |-> <<40, 80>>,
               temp_range |-> <<15, 25>>, rainfall_min |-> 500, ph_range |-> <<60, 75>>,
               soils |-> {"Loamy", "Clayey"}, seasons |-> {"Rabi", "Winter"}],
     Maize |-> [n_range |-> <<60, 100>>, p_range |-> <<30, 60>>, k_range |-> <<30, 60>>,
               temp_range |-> <<20, 30>>, rainfall_min |-> 600, ph_range |-> <<55, 75>>,
               soils |-> {"Loamy", "Sandy", "Black"}, seasons |-> {"Kharif", "Summer"}],
     Cotton |-> [n_range |-> <<80, 120>>, p_range |-> <<40, 80>>, k_range |-> <<40, 80>>,
               temp_range |-> <<21, 35>>, rainfall_min |-> 600, ph_range |-> <<60, 80>>,
               soils |-> {"Black", "Alluvial"}, seasons |-> {"Kharif", "Summer"}],
     Millets |-> [n_range |-> <<40, 80>>, p_range |-> <<20, 40>>, k_range |-> <<20, 40>>,
               temp_range |-> <<25, 35>>, rainfall_min |-> 300, ph_range |-> <<50, 75>>,
               soils |-> {"Sandy", "Red", "Loamy"}, seasons |-> {"Kharif", "Summer"}],
     Pulses |-> [n_range |-> <<20, 60>>, p_range |-> <<40, 80>>, k_range |-> <<20, 60>>,
               temp_range |-> <<20, 30>>, rainfall_min |-> 400, ph_range |-> <<60, 75>>,
               soils |-> {"Loamy", "Black", "Red"}, seasons |-> {"Rabi", "Winter"}],
     Sugarcane |-> [n_range |-> <<80, 150>>, p_range |-> <<40, 80>>, k_range |-> <<80, 150>>,
               temp_range |-> <<21, 35>>, rainfall_min |-> 1000, ph_range |-> <<60, 75>>,
               soils |-> {"Loamy", "Black"}, seasons |-> {"Whole Year", "Monsoon"}],
     Jute |-> [n_range |-> <<60, 100>>, p_range |-> <<30, 60>>, k_range |-> <<30, 60>>,
               temp_range |-> <<24, 35>>, rainfall_min |-> 1200, ph_range |-> <<60, 75>>,
               soils |-> {"Alluvial", "Clayey"}, seasons |-> {"Kharif", "Monsoon"}]]

Crops == {CropOrder[i] : i \in 1..Len(CropOrder)}

InRangeOpen(x, range) == range[1] * 10 < x /\ x < range[2] * 10

\* lo <= x <= hi, for x in tenths and a range in whole units
InRange(x, range) == range[1] * 10 <= x /\ x <= range[2] * 10

NPKPointsHeavy(req, n, p, k) ==
    (IF InRange(n, req.n_range) THEN 25 ELSE 0)
    + (IF InRange(p, req.p_range) THEN 12 ELSE 0)
    + (IF InRange(k, req.k_range) THEN 13 ELSE 0)

\* lines 61-67
NPKPoints(req, n, p, k) ==
    (IF InRange(n, req.n_range) THEN 15 ELSE 0)
    + (IF InRange(p, req.p_range) THEN 12 ELSE 0)
    + (IF InRange(k, req.k_range) THEN 13 ELSE 0)

TemperaturePointsWide(req, temperature) ==
    IF InRange(temperature, req.temp_range) THEN 20
    ELSE IF Abs(2 * temperature - (req.temp_range[1] + req.temp_range[2]) * 10) < 200 THEN 10
    ELSE 0

\* lines 69-73: abs(temperature - sum(range)/2) < 5, doubled, in tenths
TemperaturePoints(req, temperature) ==
    IF InRange(temperature, req.temp_range) THEN 20
    ELSE IF Abs(2 * temperature - (req.temp_range[1] + req.temp_range[2]) * 10) < 100 THEN 10
    ELSE 0

RainfallPointsStrict(req, rainfall) ==
    IF rainfall >= req.rainfall_min * 10 THEN 15
    ELSE IF rainfall > req.rainfall_min * 7 THEN 8
    ELSE 0

\* lines 75-79: rainfall >= rainfall_min * 0.7
RainfallPoints(req, rainfall) ==
    IF rainfall >= req.rainfall_min * 10 THEN 15
    ELSE IF rainfall >= req.rainfall_min * 7 THEN 8
    ELSE 0

\* lines 81-85: abs(ph - sum(range)/2) < 0.5, doubled, in tenths
PhPoints(req, ph) ==
    IF req.ph_range[1] <= ph /\ ph <= req.ph_range[2] THEN 10
    ELSE IF Abs(2 * ph - (req.ph_range[1] + req.ph_range[2])) < 10 THEN 5
    ELSE 0

\* lines 87-93
SoilPoints(req, soil_type) == IF soil_type \in req.soils THEN 10 ELSE 0
SeasonPoints(req, season) == IF season \in req.seasons THEN 5 ELSE 0

\* lines 59-93: the local score of one crop when line 95 is reached
Score(req, in) ==
    NPKPoints(req, in.n, in.p, in.k)
    + TemperaturePoints(req, in.temperature)
    + RainfallPoints(req, in.rainfall)
    + PhPoints(req, in.ph)
    + SoilPoints(req, in.soil_type)
    + SeasonPoints(req, in.season)

\* line 95
Clamp(score) == Min(100, score)

\* lines 56-95: the dict scores after the loop
ScoreAll(in) == [crop \in Crops |-> Clamp(Score(crops_db[crop], in))]

\* dict.items(): insertion order
Items(sc) == [i \in 1..Len(CropOrder) |-> <<CropOrder[i], sc[CropOrder[i]]>>]

RECURSIVE InsertDescUnstable(_, _)
InsertDescUnstable(s, x) ==
    IF s = <<>> THEN <<x>>
    ELSE IF s[Len(s)][2] > x[2] THEN Append(s, x)
    ELSE Append(InsertDescUnstable(SubSeq(s, 1, Len(s) - 1), x), s[Len(s)])

\* sorted(..., key=lambda x: x[1], reverse=True) is stable: of two items with
\* equal keys the one earlier in the input stays earlier.
RECURSIVE InsertDesc(_, _)
InsertDesc(s, x) ==
    IF s = <<>> THEN <<x>>
    ELSE IF Last(s)[2] >= x[2] THEN Append(s, x)
    ELSE Append(InsertDesc(Front(s), x), Last(s))

RECURSIVE SortedDesc(_)
SortedDesc(s) ==
    IF s = <<>> THEN <<>>
    ELSE InsertDesc(SortedDesc(Front(s)), Last(s))

Top2(s) == SubSeq(s, 1, Min(2, Len(s)))

\* the slice [:3]
Top3(s) == SubSeq(s, 1, Min(3, Len(s)))

\* lines 98-103; round(conf, 2) of an int is that int
Returned(sc) ==
    LET sorted_crops == Top3(SortedDesc(Items(sc)))
    IN  [i \in 1..Len(sorted_crops) |->
            [name |-> sorted_crops[i][1], confidence |-> sorted_crops[i][2]]]

(***************************************************************************)
(* Inputs of the scorer, in tenths: values on, inside and outside the      *)
(* catalog's range bounds, a fractional one and a negative one.            *)
(***************************************************************************)
NValues == {-50, 400, 800, 1000, 1205}
PValues == {100, 400, 605}
KValues == {400, 800, 1600}
TemperatureValues == {100, 200, 250, 370}
RainfallValues == {2000, 4200, 10000, 12000}
PhValues == {40, 60, 78}
SoilTypes == {"Clayey", "Loamy", "Sandy", "Black", "Alluvial", "Red", "Peaty"}
Seasons == {"Kharif", "Monsoon", "Rabi", "Winter", "Summer", "Whole Year", "Autumn"}

ScorerInputs ==
    [n : NValues, p : PValues, k : KValues, temperature : TemperatureValues,
     rainfall : RainfallValues, ph : PhValues, soil_type : SoilTypes, season : Seasons]

\* A sweep of temperature (14.0 to 36.0) and pH (4.5 to 8.5) by tenths
\* across every range bound of the catalog, the other inputs fixed.
SweepTemperatures == 140..360
SweepPhs == 45..85

SweepInputs ==
    [n : {800}, p : {400}, k : {400}, temperature : SweepTemperatures,
     rainfall : {10000}, ph : SweepPhs, soil_type : {"Loamy"}, season : {"Kharif"}]

NoScores == [crop \in Crops |-> 0]

ScorerIdle ==
    /\ sp_pc = "idle"
    /\ sp_in = [n |-> 0, p |-> 0, k |-> 0, temperature |-> 0, rainfall |-> 0,
                ph |-> 0, soil_type |-> "", season |-> ""]
    /\ scores = NoScores
    /\ sp_ret = <<>>

predict_crops_simple ==
    /\ sp_pc = "call"
    /\ scores' = ScoreAll(sp_in)
    /\ sp_ret' = Returned(ScoreAll(sp_in))
    /\ sp_pc' = "done"
    /\ UNCHANGED sp_in

(***************************************************************************)
(* app.py, predictcrop, lines 303-336: the three most probable classes of  *)
(* the classifier's probability vector.  Class indices count from 1 here   *)
(* (numpy's count from 0); probabilities are in units of 10^-5 and         *)
(* confidences in hundredths.                                              *)
(***************************************************************************)
MaxClasses == 4

\* le_crop.classes_: the label of each class index
ClassLabels == <<"A", "B", "C", "D", "E", "F">>

\* le_crop.inverse_transform([idx])[0]
inverse_transform(classes, idx) == classes[idx]

\* round(x) of Python 3: to the nearest, a half to the even neighbour
RoundHalfEven(num, den) ==
    LET q == num \div den
        r == num % den
    IN  IF 2 * r < den THEN q
        ELSE IF 2 * r > den THEN q + 1
        ELSE IF q % 2 = 0 THEN q ELSE q + 1

\* line 311: round(probabilities[idx] * 100, 2), from 10^-5 to hundredths
Round2(prob) == RoundHalfEven(prob, 10)

\* np.argsort(probabilities): an ordering of the indices by ascending
\* probability.  The default kind ("quicksort") is not stable: the order of
\* indices with equal probability depends on the numpy build.
Argsort(probs) ==
    {order \in [1..Len(probs) -> 1..Len(probs)] :
        /\ \A i, j \in 1..Len(probs) : i # j => order[i] # order[j]
        /\ \A i \in 1..(Len(probs) - 1) : probs[order[i]] <= probs[order[i + 1]]}

Reversed(s) == [i \in 1..Len(s) |-> s[Len(s) + 1 - i]]

LastThreeInOrder(order) == SubSeq(order, Max(1, Len(order) - 2), Len(order))

\* line 304: [-3:][::-1]
LastThreeReversed(order) == Reversed(SubSeq(order, Max(1, Len(order) - 2), Len(order)))

\* lines 306-336, without the presentation details of each crop
TopCropsOf(classes, probs, indices) ==
    [i \in 1..Len(indices) |->
        [name |-> inverse_transform(classes, indices[i]),
         confidence |-> Round2(probs[indices[i]])]]

\* the same with the class labels of the reduction's examples
TopCrops(probs, indices) == TopCropsOf(ClassLabels, probs, indices)

\* Probabilities in units of 10^-5: 0.1, 0.2, 0.7 (the example of the
\* specification), 0.25 (four-way ties) and 0.12346 (rounds up).
ProbabilityValues == {10000, 20000, 70000, 25000, 12346}

ProbabilityVectors == UNION {[1..len -> ProbabilityValues] : len \in 3..MaxClasses}

ReducerIdle ==
    /\ rd_pc = "idle"
    /\ probabilities = <<>>
    /\ top_3_indices = <<>>
    /\ top_3_crops = <<>>

top_3 ==
    /\ rd_pc = "call"
    /\ \E order \in Argsort(probabilities) :
           /\ top_3_indices' = LastThreeReversed(order)
           /\ top_3_crops' = TopCrops(probabilities, LastThreeReversed(order))
    /\ rd_pc' = "done"
    /\ UNCHANGED probabilities

(***************************************************************************)
(* modules/weather.py: ClimateRiskEngine.  Temperatures, humidities and    *)
(* rainfall are in tenths; the risk scores are whole numbers.              *)
(*                                                                         *)
(* The outcome of requests.get (line 18) is an input:                      *)
(*   [kind |-> "error"]     the request raised (caught at line 20)         *)
(*   [kind |-> "status"]    a status code other than 200                   *)
(*   [kind |-> "ok", temp, humidity]   200 with a weather sample           *)
(*   [kind |-> "nomain"]    200 with a JSON object without the key 'main'  *)
(***************************************************************************)
NoWeather == [kind |-> "none"]

\* lines 9-22: None, or the JSON of the response
get_weather_data(api_key, city, lookup) ==
    IF ~api_key THEN NoWeather
    ELSE IF lookup.kind \in {"error", "status"} THEN NoWeather
    ELSE lookup

\* lines 28-31
Weather(api_key, city, lookup) ==
    IF city = "" THEN NoWeather ELSE get_weather_data(api_key, city, lookup)

\* line 33
Temp(weather, hist_temp) == IF weather.kind = "ok" THEN weather.temp ELSE hist_temp

\* line 34: the fallback 50, in tenths
Humidity(weather) == IF weather.kind = "ok" THEN weather.humidity ELSE 500

DroughtScore20Inclusive(temp, humidity, hist_rainfall) ==
    Max(0, temp - 250) * 4 + Max(0, 1000 - humidity)
    + (IF hist_rainfall <= 5000 THEN 400 ELSE 0)

\* lines 38-40: drought_score, in twentieths:
\* max(0, temp - 25) * 2 + max(0, 100 - humidity) * 0.5, + 20 if rainfall < 500
DroughtScore20(temp, humidity, hist_rainfall) ==
    Max(0, temp - 250) * 4 + Max(0, 1000 - humidity)
    + (IF hist_rainfall < 5000 THEN 400 ELSE 0)

\* line 44: flood_score, in five-hundredths: rainfall / 50 + humidity * 0.3
FloodScore500(humidity, hist_rainfall) == hist_rainfall + 15 * humidity

\* lines 46-51
RiskScores(temp, humidity, hist_rainfall) ==
    [drought_risk |-> Min(100, RoundHalfEven(DroughtScore20(temp, humidity, hist_rainfall), 20)),
     flood_risk |-> Min(100, RoundHalfEven(FloodScore500(humidity, hist_rainfall), 500)),
     current_temp |-> temp,
     current_humidity |-> humidity]

\* lines 24-51: the return value, or the KeyError of lines 33-34 on a
\* response without 'main'
RiskResult(in) ==
    LET weather == Weather(in.api_key, in.city, in.lookup)
    IN  IF weather.kind = "nomain" THEN [raised |-> "KeyError"]
        ELSE RiskScores(Temp(weather, in.hist_temp), Humidity(weather), in.hist_rainfall)

\* Inputs, in tenths: rainfall -1000, 300, 499.9, 500, 1225 and 5000 mm;
\* temperatures -10, 25, 30, 31.3 and 70; live humidity -5, 0, 45.5, 50,
\* 100 and 120.
HistRainfallValues == {-10000, 3000, 4999, 5000, 12250, 50000}
HistTempValues == {-100, 250, 300, 313, 700}
LiveTempValues == {200, 355}
LiveHumidityValues == {-50, 0, 455, 500, 1000, 1200}
Cities == {"", "Pune"}

Lookups ==
    {[kind |-> "error"], [kind |-> "status"], [kind |-> "nomain"]}
    \cup [kind : {"ok"}, temp : LiveTempValues, humidity : LiveHumidityValues]

RiskInputs ==
    [city : Cities, api_key : BOOLEAN, lookup : Lookups,
     hist_rainfall : HistRainfallValues, hist_temp : HistTempValues]

NoRisk == [raised |-> "not called"]

RiskIdle ==
    /\ rk_pc = "idle"
    /\ rk_in = [city |-> "", api_key |-> FALSE, lookup |-> [kind |-> "error"],
                hist_rainfall |-> 0, hist_temp |-> 0]
    /\ rk_ret = NoRisk

calculate_risk_scores ==
    /\ rk_pc = "call"
    /\ rk_ret' = RiskResult(rk_in)
    /\ rk_pc' = "done"
    /\ UNCHANGED rk_in

(***************************************************************************)
(* modules/weather.py: ClimateRiskEngine.get_risk_adjusted_crops.  The     *)
(* crop records are Python dicts: objects the caller's list, the local     *)
(* list adjusted and the returned list all refer to.  ra_dicts models them: *)
(* a function from object identities to the dicts' contents, and a list    *)
(* is a sequence of identities.  Confidences are in hundredths of a        *)
(* percent point (6000 is 60.00), as the classifier's; score_adj is in     *)
(* whole points; the risk scores are whole numbers.                        *)
(***************************************************************************)
MaxCrops == 2

\* str.lower() on the crop names of the model
Lower(name) ==
    CASE name = "Millets" -> "millets"
      [] name = "Pulses" -> "pulses"
      [] name = "MAIZE" -> "maize"
      [] name = "Maize" -> "maize"
      [] name = "Rice" -> "rice"
      [] name = "Cotton" -> "cotton"
      [] name = "Wheat" -> "wheat"
      [] OTHER -> name

DroughtAdjExact(name, d_risk, score_adj) ==
    IF d_risk > 60
    THEN IF name \in {"millets", "pulses", "maize"} THEN 15
         ELSE IF name \in {"rice", "cotton"} THEN -20
         ELSE score_adj
    ELSE score_adj

\* lines 65-69: score_adj after the drought rule
DroughtAdj(name, d_risk, score_adj) ==
    IF d_risk > 60
    THEN IF Lower(name) \in {"millets", "pulses", "maize"} THEN 15
         ELSE IF Lower(name) \in {"rice", "cotton"} THEN -20
         ELSE score_adj
    ELSE score_adj

FloodAdjAdded(name, f_risk, score_adj) ==
    IF f_risk > 70
    THEN IF Lower(name) \in {"rice"} THEN score_adj + 20
         ELSE IF Lower(name) \in {"pulses", "maize"} THEN score_adj - 25
         ELSE score_adj
    ELSE score_adj

\* lines 71-75: score_adj after the flood rule, which assigns (never adds)
FloodAdj(name, f_risk, score_adj) ==
    IF f_risk > 70
    THEN IF Lower(name) \in {"rice"} THEN 20
         ELSE IF Lower(name) \in {"pulses", "maize"} THEN -25
         ELSE score_adj
    ELSE score_adj

\* lines 64-75: the local score_adj of one iteration
ScoreAdj(name, risk_scores) ==
    FloodAdj(name, risk_scores.flood_risk,
             DroughtAdj(name, risk_scores.drought_risk, 0))

ClampedAbove(confidence, score_adj) == Min(10000, confidence + 100 * score_adj)

\* line 77: max(0, min(100, crop['confidence'] + score_adj)), in hundredths
Clamped(confidence, score_adj) == Max(0, Min(10000, confidence + 100 * score_adj))

SetItemBoth(crop, key, value) ==
    [k \in DOMAIN crop \cup {key} |->
        IF k \in {key, "confidence"} THEN value ELSE crop[k]]

\* crop[key] = value on a dict
SetItem(crop, key, value) ==
    [k \in DOMAIN crop \cup {key} |-> IF k = key THEN value ELSE crop[k]]

\* lines 64-78, one iteration of the loop on the dict with identity id
LoopBody(heap, id, risk_scores) ==
    [heap EXCEPT ![id] =
        SetItem(heap[id], "risk_adjusted_confidence",
                Clamped(heap[id].confidence, ScoreAdj(heap[id].name, risk_scores)))]

\* lines 63-78: the dicts after the loop over the list
RECURSIVE Loop(_, _, _)
Loop(heap, list, risk_scores) ==
    IF list = <<>> THEN heap
    ELSE LoopBody(Loop(heap, Front(list), risk_scores), Last(list), risk_scores)

RECURSIVE InsertByKeyUnstable(_, _, _)
InsertByKeyUnstable(s, x, heap) ==
    IF s = <<>> THEN <<x>>
    ELSE IF heap[Last(s)].risk_adjusted_confidence > heap[x].risk_adjusted_confidence
         THEN Append(s, x)
    ELSE Append(InsertByKeyUnstable(Front(s), x, heap), Last(s))

\* line 80: sorted(adjusted, key=lambda x: x['risk_adjusted_confidence'],
\* reverse=True) is stable
RECURSIVE InsertByKey(_, _, _)
InsertByKey(s, x, heap) ==
    IF s = <<>> THEN <<x>>
    ELSE IF heap[Last(s)].risk_adjusted_confidence >= heap[x].risk_adjusted_confidence
         THEN Append(s, x)
    ELSE Append(InsertByKey(Front(s), x, heap), Last(s))

RECURSIVE SortedByKey(_, _)
SortedByKey(s, heap) ==
    IF s = <<>> THEN <<>>
    ELSE InsertByKey(SortedByKey(Front(s), heap), Last(s), heap)

\* what a caller reads through a list of dicts
Deref(list, heap) == [i \in 1..Len(list) |-> heap[list[i]]]

\* the identities of the dicts of a list of n dicts
Identities(n) == [i \in 1..n |-> i]

\* lines 53-80: what a caller that passes the dicts predictions reads
\* through the returned list
RankerReturn(predictions_arg, risk_scores) ==
    LET list == Identities(Len(predictions_arg))
        heap == Loop(predictions_arg, list, risk_scores)
    IN  Deref(SortedByKey(list, heap), heap)

\* Names in the three groups of the rules, one in capitals and one that no
\* rule names; confidences 5, 60, 80 and 90; risk scores on and above the
\* two thresholds.
RankerNames == {"Millets", "Pulses", "MAIZE", "Rice", "Cotton", "Wheat"}
ConfidenceValues == {500, 6000, 8000, 9000}
CropRecords == [name : RankerNames, confidence : ConfidenceValues]

PredictionLists ==
    UNION {{list \in [1..len -> CropRecords] :
               \A i, j \in 1..len : i # j => list[i].name # list[j].name} :
           len \in 0..MaxCrops}

RiskPairs ==
    {[drought_risk |-> 60, flood_risk |-> 70],
     [drought_risk |-> 70, flood_risk |-> 0],
     [drought_risk |-> 70, flood_risk |-> 70],
     [drought_risk |-> 60, flood_risk |-> 71],
     [drought_risk |-> 70, flood_risk |-> 71]}

RankerInputs == [predictions : PredictionLists, risk_scores : RiskPairs]

NoRankerInput == [predictions |-> <<>>, risk_scores |-> [drought_risk |-> 0, flood_risk |-> 0]]

RankerIdle ==
    /\ ra_pc = "idle"
    /\ ra_in = NoRankerInput
    /\ ra_dicts = <<>>
    /\ ra_adj = <<>>
    /\ ra_ret = <<>>
    /\ ra_first = <<>>

\* The caller passes its list of dicts.
get_risk_adjusted_crops ==
    /\ ra_pc = "call"
    /\ LET list == Identities(Len(ra_in.predictions))
           heap == Loop(ra_dicts, list, ra_in.risk_scores)
       IN  /\ ra_dicts' = heap
           /\ ra_adj' = [i \in 1..Len(list) |->
                            ScoreAdj(ra_dicts[list[i]].name, ra_in.risk_scores)]
           /\ ra_ret' = SortedByKey(list, heap)
           /\ ra_first' = Deref(SortedByKey(list, heap), heap)
    /\ ra_pc' = "once"
    /\ UNCHANGED ra_in

\* The caller passes the list the first call returned, with the same risk
\* scores.
get_risk_adjusted_crops_again ==
    /\ ra_pc = "once"
    /\ LET list == ra_ret
           heap == Loop(ra_dicts, list, ra_in.risk_scores)
       IN  /\ ra_dicts' = heap
           /\ ra_adj' = [i \in 1..Len(list) |->
                            ScoreAdj(ra_dicts[list[i]].name, ra_in.risk_scores)]
           /\ ra_ret' = SortedByKey(list, heap)
    /\ ra_pc' = "twice"
    /\ UNCHANGED <<ra_in, ra_first>>

(***************************************************************************)
(* get_risk_adjusted_crops called by two threads at once with the same     *)
(* list of dicts and different risk scores.  Each call has its own locals  *)
(* (risk scores, adjusted, position in the loop); the dicts are shared.    *)
(* The interpreter switches threads between bytecodes: a step here is one  *)
(* iteration of the loop (its only access to shared data that another      *)
(* call changes is the store of line 77), or the sort with the return.     *)
(***************************************************************************)
Calls == {1, 2}

\* The risk scores of the two calls
ConcurrentRisks ==
    {<<[drought_risk |-> 70, flood_risk |-> 0], [drought_risk |-> 60, flood_risk |-> 70]>>,
     <<[drought_risk |-> 70, flood_risk |-> 71], [drought_risk |-> 70, flood_risk |-> 0]>>,
     <<[drought_risk |-> 60, flood_risk |-> 71], [drought_risk |-> 70, flood_risk |-> 70]>>}

ConcurrentInputs ==
    [predictions : PredictionLists \ {<<>>}, risk_scores : ConcurrentRisks]

NoConcurrentInput == [predictions |-> <<>>, risk_scores |-> <<>>]

ConcurrentIdle ==
    /\ cc_in = NoConcurrentInput
    /\ cc_dicts = <<>>
    /\ cc_pc = [c \in Calls |-> "idle"]
    /\ cc_adjusted = [c \in Calls |-> <<>>]
    /\ cc_ret = [c \in Calls |-> <<>>]

\* lines 63-78: one iteration of the loop of call c
loop_iteration(c) ==
    /\ cc_pc[c] = "loop"
    /\ Len(cc_adjusted[c]) < Len(cc_in.predictions)
    /\ LET id == Len(cc_adjusted[c]) + 1
       IN  /\ cc_dicts' = LoopBody(cc_dicts, id, cc_in.risk_scores[c])
           /\ cc_adjusted' = [cc_adjusted EXCEPT ![c] = Append(@, id)]
    /\ UNCHANGED <<cc_in, cc_pc, cc_ret>>

\* line 80: the sort and the return of call c; cc_ret[c] is what its caller
\* reads through the returned list at that moment
sort_and_return(c) ==
    /\ cc_pc[c] = "loop"
    /\ Len(cc_adjusted[c]) = Len(cc_in.predictions)
    /\ cc_ret' = [cc_ret EXCEPT ![c] = Deref(SortedByKey(cc_adjusted[c], cc_dicts), cc_dicts)]
    /\ cc_pc' = [cc_pc EXCEPT ![c] = "done"]
    /\ UNCHANGED <<cc_in, cc_dicts, cc_adjusted>>

(***************************************************************************)
(* app.py: the Flask application.  One browser session; every handler is   *)
(* one action.  What the collaborators do during a request (the trained    *)
(* classifier, the weather API, the construction of the risk engine) is    *)
(* an input of the request.                                                *)
(***************************************************************************)
MaxPredictions == 1
MaxFeedbacks == 1

NoSession == [logged_in |-> FALSE]
NoRequest == [route |-> "none"]
NoResponse == [kind |-> "none"]

Emails == {"a@farm.in"}
Passwords == {"secret", "guess"}
Locations == {"", "Pune"}

\* lines 220-238: POST /register
register(email, password, location) ==
    /\ IF \E u \in users : u.email = email
       THEN /\ users' = users
            /\ response' = [kind |-> "redirect", to |-> "register",
                            flash |-> "Email already registered. Please login."]
       ELSE /\ users' = users \cup {[id |-> Cardinality(users) + 1, email |-> email,
                                     password |-> password, location |-> location]}
            /\ response' = [kind |-> "redirect", to |-> "login",
                            flash |-> "Registration successful! Please login."]
    /\ request' = [route |-> "register"]
    /\ UNCHANGED <<session, model_bundle, model_file, risk_engine, predictions,
                   crop_collection, feedbacks, agri_bot, analytics_engine>>

\* lines 240-253: POST /login
login(email, password) ==
    /\ IF \E u \in users : u.email = email /\ u.password = password
       THEN /\ session' = [logged_in |-> TRUE,
                           user_id |-> (CHOOSE u \in users : u.email = email).id]
            /\ response' = [kind |-> "redirect", to |-> "dashboard", flash |-> "Welcome back"]
       ELSE /\ session' = session
            /\ response' = [kind |-> "page", page |-> "login.html",
                            flash |-> "Invalid email or password."]
    /\ request' = [route |-> "login"]
    /\ UNCHANGED <<users, model_bundle, model_file, risk_engine, predictions,
                   crop_collection, feedbacks, agri_bot, analytics_engine>>

logout_keeping_session ==
    /\ session' = session
    /\ request' = [route |-> "logout"]
    /\ response' = [kind |-> "redirect", to |-> "home",
                    flash |-> "You have been logged out successfully."]
    /\ UNCHANGED <<users, model_bundle, model_file, risk_engine, predictions,
                   crop_collection, feedbacks, agri_bot, analytics_engine>>

\* lines 255-259: GET /logout
logout ==
    /\ session' = NoSession
    /\ request' = [route |-> "logout"]
    /\ response' = [kind |-> "redirect", to |-> "home",
                    flash |-> "You have been logged out successfully."]
    /\ UNCHANGED <<users, model_bundle, model_file, risk_engine, predictions,
                   crop_collection, feedbacks, agri_bot, analytics_engine>>

get_model_bundle_retrying(bundle, file) ==
    IF bundle \in {"None", "empty"}
    THEN IF file = "present" THEN "loaded" ELSE "empty"
    ELSE bundle

\* lines 71-82: the value of _model_bundle after get_model_bundle()
get_model_bundle(bundle, file) ==
    IF bundle = "None"
    THEN IF file = "present" THEN "loaded" ELSE "empty"
    ELSE bundle

\* lines 35-44: the value of _risk_engine after get_risk_engine(); a failed
\* construction leaves it None
get_risk_engine(engine, made) ==
    IF engine = [made |-> FALSE] THEN made ELSE engine

\* lines 87-102: the value of _crop_collection after get_crop_collection();
\* a failed connection leaves it None
get_crop_collection(collection, connects) ==
    IF collection = "None"
    THEN IF connects THEN "connected" ELSE "None"
    ELSE collection

\* What the request keeps of a lazy initialisation: "kept" if the global
\* was set already, else whether the attempt of this request succeeded
Attempt(was_set, succeeds) ==
    IF was_set THEN "kept" ELSE IF succeeds THEN "made" ELSE "failed"

\* lines 339-352: risk_data; the engine absent gives the defaults 20.0, 20.0
RiskData(engine, user, form, lookup) ==
    IF engine.made
    THEN RiskResult([city |-> IF user.location # "" THEN user.location ELSE "Unknown",
                     api_key |-> engine.api_key, lookup |-> lookup,
                     hist_rainfall |-> form.rainfall, hist_temp |-> form.temperature])
    ELSE [drought_risk |-> 20, flood_risk |-> 20,
          current_temp |-> form.temperature, current_humidity |-> form.humidity]

\* le_crop.classes_ of the deployed bundle: crop names, sorted
CropClasses == <<"Maize", "Rice", "Wheat">>

AdjustedCropsRanked(top_crops, risk_data) == RankerReturn(top_crops, risk_data)

\* lines 354-361: adjusted_crops, the pass-through copy of top_3_crops
\* ("risk logic is display-only"); risk_data is not consulted
AdjustedCrops(top_crops, risk_data) == top_crops

\* lines 364-374: the Prediction row
PredictionRow(user_id, form, adjusted_crops, risk_data) ==
    [user_id |-> user_id, rainfall |-> form.rainfall, temperature |-> form.temperature,
     crop1 |-> adjusted_crops[1].name, confidence1 |-> adjusted_crops[1].confidence,
     crop2 |-> adjusted_crops[2].name, confidence2 |-> adjusted_crops[2].confidence,
     crop3 |-> adjusted_crops[3].name, confidence3 |-> adjusted_crops[3].confidence,
     drought_risk |-> risk_data.drought_risk, flood_risk |-> risk_data.flood_risk]

ErrorRedirect(what) ==
    [kind |-> "redirect", to |-> "predictcrop", flash |-> "Error", error |-> what]

\* What the request keeps of the classifier's behaviour
ClassifierSeen(classifier) ==
    IF classifier.kind = "raises" THEN "raises"
    ELSE IF Len(classifier.probs) < 3 THEN "short" ELSE "probabilities"

\* Inputs of POST /predictcrop.
\*   form        the posted fields (kind "bad number": float() raises on one
\*               of them; "unknown label": a label encoder does not know
\*               the soil type, season or region)
\*   classifier  what model.predict_proba does: [kind |-> "raises"], or
\*               [kind |-> "probabilities", probs |-> the vector]
\*   made        what constructing ClimateRiskEngine gives, if it is tried
\*               (an engine without API key behaves as one whose lookups fail)
\*   lookup      what the weather request gives, if it is made
Forms ==
    [kind : {"ok", "bad number", "unknown label"}, rainfall : {3000},
     temperature : {300}, humidity : {600}]

Classifiers ==
    {[kind |-> "raises"],
     [kind |-> "probabilities", probs |-> <<10000, 70000, 20000>>],
     [kind |-> "probabilities", probs |-> <<20000, 40000, 40000>>],
     [kind |-> "probabilities", probs |-> <<70000, 20000>>]}

EnginesMade == {[made |-> FALSE], [made |-> TRUE, api_key |-> TRUE]}

AppLookups ==
    {[kind |-> "error"], [kind |-> "nomain"],
     [kind |-> "ok", temp |-> 355, humidity |-> 0]}

\* lines 261-387: POST /predictcrop, with what its collaborators may do
predictcrop(form, classifiers, engines, lookups) ==
    /\ IF ~session.logged_in
       THEN \* lines 263-265
            /\ request' = [route |-> "predictcrop", method |-> "POST", served |-> FALSE]
            /\ response' = [kind |-> "redirect", to |-> "login",
                            flash |-> "Please login to access crop prediction."]
            /\ UNCHANGED <<model_bundle, risk_engine, predictions, crop_collection>>
       ELSE IF form.kind = "bad number"
       THEN \* lines 271-277 raise ValueError; lines 385-387
            /\ request' = [route |-> "predictcrop", method |-> "POST", served |-> TRUE,
                           form |-> form.kind, classifier |-> "not called"]
            /\ response' = ErrorRedirect("ValueError")
            /\ UNCHANGED <<model_bundle, risk_engine, predictions, crop_collection>>
       ELSE /\ model_bundle' = get_model_bundle(model_bundle, model_file)
            /\ IF model_bundle' = "empty"
               THEN \* lines 284-286
                    /\ request' = [route |-> "predictcrop", method |-> "POST",
                                   served |-> TRUE,
                                   form |-> form.kind, classifier |-> "not called"]
                    /\ response' = [kind |-> "redirect", to |-> "predictcrop",
                                    flash |-> "AI Prediction system is warming up."]
                    /\ UNCHANGED <<risk_engine, predictions, crop_collection>>
               ELSE IF form.kind = "unknown label"
               THEN \* lines 295-297 raise ValueError
                    /\ request' = [route |-> "predictcrop", method |-> "POST",
                                   served |-> TRUE,
                                   form |-> form.kind, classifier |-> "not called"]
                    /\ response' = ErrorRedirect("ValueError")
                    /\ UNCHANGED <<risk_engine, predictions, crop_collection>>
               ELSE \E classifier \in classifiers :
                    /\ IF classifier.kind = "raises"
                       THEN \* line 303 raises
                            /\ request' = [route |-> "predictcrop", method |-> "POST",
                                           served |-> TRUE, form |-> form.kind,
                                           classifier |-> ClassifierSeen(classifier)]
                            /\ response' = ErrorRedirect("predict_proba")
                            /\ UNCHANGED <<risk_engine, predictions, crop_collection>>
                       ELSE \E order \in Argsort(classifier.probs), made \in engines,
                               lookup \in lookups, connects \in BOOLEAN :
                            LET crops == TopCropsOf(CropClasses, classifier.probs,
                                                    LastThreeReversed(order))
                                user == CHOOSE u \in users : u.id = session.user_id
                                engine == get_risk_engine(risk_engine, made)
                                risk_data == RiskData(engine, user, form, lookup)
                                adjusted_crops == AdjustedCrops(crops, risk_data)
                            IN  /\ request' =
                                       [route |-> "predictcrop", method |-> "POST",
                                        served |-> TRUE, form |-> form.kind,
                                        classifier |-> ClassifierSeen(classifier),
                                        collection |-> Attempt(crop_collection # "None",
                                                               connects),
                                        engine |-> Attempt(risk_engine.made, made.made)]
                                \* line 307
                                /\ crop_collection' =
                                       get_crop_collection(crop_collection, connects)
                                /\ risk_engine' = engine
                                /\ IF "raised" \in DOMAIN risk_data
                                   THEN \* line 343 raises
                                        /\ response' = ErrorRedirect(risk_data.raised)
                                        /\ UNCHANGED predictions
                                   ELSE IF Len(adjusted_crops) < 3
                                   THEN \* lines 369-371 raise IndexError
                                        /\ response' = ErrorRedirect("IndexError")
                                        /\ UNCHANGED predictions
                                   ELSE \* lines 364-384
                                        /\ Len(predictions) < MaxPredictions
                                        /\ predictions' = Append(predictions,
                                               PredictionRow(session.user_id, form,
                                                             adjusted_crops, risk_data))
                                        /\ response' = [kind |-> "results",
                                                        predictions |-> adjusted_crops,
                                                        risk_data |-> risk_data]
    /\ UNCHANGED <<users, session, model_file, feedbacks, agri_bot, analytics_engine>>

\* POST /predictcrop with every collaborator behaviour of the model
predictcrop_post(form) == predictcrop(form, Classifiers, EnginesMade, AppLookups)

\* The rows of table Prediction of one user, oldest first
RECURSIVE PredictionsOf(_, _)
PredictionsOf(rows, user_id) ==
    IF rows = <<>> THEN <<>>
    ELSE IF Last(rows).user_id = user_id
         THEN Append(PredictionsOf(Front(rows), user_id), Last(rows))
    ELSE PredictionsOf(Front(rows), user_id)

\* lines 261-265 and 389-458: GET /predictcrop.  The page needs the
\* bundle's classes for its dropdowns (line 398) and, to show the user's
\* last prediction, the crop collection (line 424, once per crop)
predictcrop_get ==
    /\ IF ~session.logged_in
       THEN /\ request' = [route |-> "predictcrop", method |-> "GET", served |-> FALSE]
            /\ response' = [kind |-> "redirect", to |-> "login",
                            flash |-> "Please login to access crop prediction."]
            /\ UNCHANGED <<model_bundle, crop_collection>>
       ELSE /\ request' = [route |-> "predictcrop", method |-> "GET", served |-> TRUE,
                           form |-> "none", classifier |-> "not called"]
            /\ model_bundle' = get_model_bundle(model_bundle, model_file)
            /\ IF PredictionsOf(predictions, session.user_id) = <<>>
               THEN /\ response' = [kind |-> "page", page |-> "predictcrop.html",
                                    show_results |-> FALSE]
                    /\ UNCHANGED crop_collection
               ELSE \E connects \in BOOLEAN :
                    /\ crop_collection' = get_crop_collection(crop_collection, connects)
                    /\ response' = [kind |-> "page", page |-> "predictcrop.html",
                                    show_results |-> TRUE]
    /\ UNCHANGED <<users, session, model_file, risk_engine, predictions, feedbacks,
                   agri_bot, analytics_engine>>

\* lines 46-55 and 57-66: whether _agri_bot (_analytics_engine) is set
\* after the getter; a failed construction leaves it None
get_engine(is_set, made) == is_set \/ made

Methods == {"GET", "POST"}

\* lines 460-473: GET or POST /chatbot; bot_made is what constructing
\* AgriBot gives, if it is tried
chatbot(method, bot_made) ==
    /\ IF ~session.logged_in
       THEN /\ request' = [route |-> "chatbot", method |-> method, served |-> FALSE]
            /\ response' = [kind |-> "redirect", to |-> "login"]
            /\ UNCHANGED agri_bot
       ELSE /\ request' = [route |-> "chatbot", method |-> method, served |-> TRUE]
            /\ IF method = "POST"
               THEN /\ agri_bot' = get_engine(agri_bot, bot_made)
                    /\ response' = [kind |-> "json", answered |-> agri_bot']
               ELSE /\ response' = [kind |-> "page", page |-> "chatbot.html"]
                    /\ UNCHANGED agri_bot
    /\ UNCHANGED <<users, session, model_bundle, model_file, risk_engine, predictions,
                   crop_collection, feedbacks, analytics_engine>>

\* lines 476-529: GET /dashboard
dashboard(engine_made) ==
    /\ IF ~session.logged_in
       THEN /\ request' = [route |-> "dashboard", method |-> "GET", served |-> FALSE]
            /\ response' = [kind |-> "redirect", to |-> "login"]
            /\ UNCHANGED analytics_engine
       ELSE /\ request' = [route |-> "dashboard", method |-> "GET", served |-> TRUE]
            /\ analytics_engine' = get_engine(analytics_engine, engine_made)
            /\ response' = [kind |-> "page", page |-> "dashboard.html",
                            predictions |-> Len(PredictionsOf(predictions, session.user_id)),
                            analytics |-> analytics_engine']
    /\ UNCHANGED <<users, session, model_bundle, model_file, risk_engine, predictions,
                   crop_collection, feedbacks, agri_bot>>

\* The posted rating: a number, or text int() raises on
Ratings == {[kind |-> "ok", rating |-> 5], [kind |-> "bad number"]}

\* lines 531-544: GET or POST /review
review(method, form) ==
    /\ IF ~session.logged_in
       THEN /\ request' = [route |-> "review", method |-> method, served |-> FALSE]
            /\ response' = [kind |-> "redirect", to |-> "login"]
            /\ UNCHANGED feedbacks
       ELSE /\ request' = [route |-> "review", method |-> method, served |-> TRUE]
            /\ IF method = "GET"
               THEN /\ response' = [kind |-> "page", page |-> "review.html"]
                    /\ UNCHANGED feedbacks
               ELSE IF form.kind = "bad number"
               THEN \* line 539 raises ValueError, which nothing handles
                    /\ response' = [kind |-> "error", status |-> 500]
                    /\ UNCHANGED feedbacks
               ELSE /\ Len(feedbacks) < MaxFeedbacks
                    /\ feedbacks' = Append(feedbacks,
                           [user_id |-> session.user_id, rating |-> form.rating])
                    /\ response' = [kind |-> "page", page |-> "review.html",
                                    flash |-> "Feedback submitted!"]
    /\ UNCHANGED <<users, session, model_bundle, model_file, risk_engine, predictions,
                   crop_collection, agri_bot, analytics_engine>>

\* The model file is deployed to, or removed from, the server.
model_file_changes ==
    /\ model_file' = IF model_file = "present" THEN "missing" ELSE "present"
    /\ UNCHANGED <<users, session, model_bundle, risk_engine, predictions,
                   crop_collection, feedbacks, agri_bot, analytics_engine,
                   request, response>>

AppIdle ==
    /\ users = {}
    /\ session = NoSession
    /\ model_bundle = "None"
    /\ model_file = "missing"
    /\ risk_engine = [made |-> FALSE]
    /\ predictions = <<>>
    /\ crop_collection = "None"
    /\ feedbacks = <<>>
    /\ agri_bot = FALSE
    /\ analytics_engine = FALSE
    /\ request = NoRequest
    /\ response = NoResponse

(***************************************************************************)
(* Specifications.                                                         *)
(***************************************************************************)
ScorerInit ==
    /\ sp_pc = "call"
    /\ sp_in \in ScorerInputs
    /\ scores = NoScores
    /\ sp_ret = <<>>
    /\ ReducerIdle
    /\ RiskIdle
    /\ RankerIdle
    /\ ConcurrentIdle
    /\ AppIdle

ScorerNext == predict_crops_simple /\ UNCHANGED <<reducer_vars, risk_vars, ranker_vars, concurrent_vars, app_vars>>

ScorerSpec == ScorerInit /\ [][ScorerNext]_vars

ScorerSweepInit ==
    /\ sp_pc = "call"
    /\ sp_in \in SweepInputs
    /\ scores = NoScores
    /\ sp_ret = <<>>
    /\ ReducerIdle
    /\ RiskIdle
    /\ RankerIdle
    /\ ConcurrentIdle
    /\ AppIdle

ScorerSweepSpec == ScorerSweepInit /\ [][ScorerNext]_vars

ReducerInit ==
    /\ rd_pc = "call"
    /\ probabilities \in ProbabilityVectors
    /\ top_3_indices = <<>>
    /\ top_3_crops = <<>>
    /\ ScorerIdle
    /\ RiskIdle
    /\ RankerIdle
    /\ ConcurrentIdle
    /\ AppIdle

ReducerNext == top_3 /\ UNCHANGED <<scorer_vars, risk_vars, ranker_vars, concurrent_vars, app_vars>>

ReducerSpec == ReducerInit /\ [][ReducerNext]_vars

RiskInit ==
    /\ rk_pc = "call"
    /\ rk_in \in RiskInputs
    /\ rk_ret = NoRisk
    /\ ScorerIdle
    /\ ReducerIdle
    /\ RankerIdle
    /\ ConcurrentIdle
    /\ AppIdle

RiskNext == calculate_risk_scores /\ UNCHANGED <<scorer_vars, reducer_vars, ranker_vars, concurrent_vars, app_vars>>

RiskSpec == RiskInit /\ [][RiskNext]_vars

RankerInit ==
    /\ ra_pc = "call"
    /\ ra_in \in RankerInputs
    /\ ra_dicts = ra_in.predictions
    /\ ra_adj = <<>>
    /\ ra_ret = <<>>
    /\ ra_first = <<>>
    /\ ScorerIdle
    /\ ReducerIdle
    /\ RiskIdle
    /\ ConcurrentIdle
    /\ AppIdle

RankerNext ==
    \/ get_risk_adjusted_crops
          /\ UNCHANGED <<scorer_vars, reducer_vars, risk_vars, concurrent_vars, app_vars>>
    \/ get_risk_adjusted_crops_again
          /\ UNCHANGED <<scorer_vars, reducer_vars, risk_vars, concurrent_vars, app_vars>>

RankerSpec == RankerInit /\ [][RankerNext]_vars

ConcurrentInit ==
    /\ cc_in \in ConcurrentInputs
    /\ cc_dicts = cc_in.predictions
    /\ cc_pc = [c \in Calls |-> "loop"]
    /\ cc_adjusted = [c \in Calls |-> <<>>]
    /\ cc_ret = [c \in Calls |-> <<>>]
    /\ ScorerIdle
    /\ ReducerIdle
    /\ RiskIdle
    /\ RankerIdle
    /\ AppIdle

ConcurrentNext ==
    \/ /\ \E c \in Calls : loop_iteration(c)
       /\ UNCHANGED <<scorer_vars, reducer_vars, risk_vars, ranker_vars, app_vars>>
    \/ /\ \E c \in Calls : sort_and_return(c)
       /\ UNCHANGED <<scorer_vars, reducer_vars, risk_vars, ranker_vars, app_vars>>

ConcurrentSpec == ConcurrentInit /\ [][ConcurrentNext]_vars

AppInit ==
    /\ users = {}
    /\ session = NoSession
    /\ model_bundle = "None"
    /\ model_file \in {"present", "missing"}
    /\ risk_engine = [made |-> FALSE]
    /\ predictions = <<>>
    /\ crop_collection = "None"
    /\ feedbacks = <<>>
    /\ agri_bot = FALSE
    /\ analytics_engine = FALSE
    /\ request = NoRequest
    /\ response = NoResponse
    /\ ScorerIdle
    /\ ReducerIdle
    /\ RiskIdle
    /\ RankerIdle
    /\ ConcurrentIdle

AppNext ==
    \/ /\ \E email \in Emails, password \in Passwords, location \in Locations :
              register(email, password, location)
       /\ UNCHANGED <<scorer_vars, reducer_vars, risk_vars, ranker_vars, concurrent_vars>>
    \/ /\ \E email \in Emails, password \in Passwords : login(email, password)
       /\ UNCHANGED <<scorer_vars, reducer_vars, risk_vars, ranker_vars, concurrent_vars>>
    \/ /\ logout
       /\ UNCHANGED <<scorer_vars, reducer_vars, risk_vars, ranker_vars, concurrent_vars>>
    \/ /\ \E form \in Forms : predictcrop_post(form)
       /\ UNCHANGED <<scorer_vars, reducer_vars, risk_vars, ranker_vars, concurrent_vars>>
    \/ /\ predictcrop_get
       /\ UNCHANGED <<scorer_vars, reducer_vars, risk_vars, ranker_vars, concurrent_vars>>
    \/ /\ model_file_changes
       /\ UNCHANGED <<scorer_vars, reducer_vars, risk_vars, ranker_vars, concurrent_vars>>

AppSpec == AppInit /\ [][AppNext]_vars

\* Every route behind the login, with the model file in place, a classifier
\* that answers, a risk engine that can be made and a weather lookup that
\* fails.
SessionClassifiers == {[kind |-> "probabilities", probs |-> <<10000, 70000, 20000>>]}
SessionEngines == {[made |-> TRUE, api_key |-> TRUE]}
SessionLookups == {[kind |-> "error"]}

SessionInit ==
    /\ AppInit
    /\ model_file = "present"

SessionNext ==
    \/ /\ \E email \in Emails, password \in Passwords, location \in Locations :
              register(email, password, location)
       /\ UNCHANGED <<scorer_vars, reducer_vars, risk_vars, ranker_vars, concurrent_vars>>
    \/ /\ \E email \in Emails, password \in Passwords : login(email, password)
       /\ UNCHANGED <<scorer_vars, reducer_vars, risk_vars, ranker_vars, concurrent_vars>>
    \/ /\ logout
       /\ UNCHANGED <<scorer_vars, reducer_vars, risk_vars, ranker_vars, concurrent_vars>>
    \/ /\ \E form \in Forms :
              predictcrop(form, SessionClassifiers, SessionEngines, SessionLookups)
       /\ UNCHANGED <<scorer_vars, reducer_vars, risk_vars, ranker_vars, concurrent_vars>>
    \/ /\ predictcrop_get
       /\ UNCHANGED <<scorer_vars, reducer_vars, risk_vars, ranker_vars, concurrent_vars>>
    \/ /\ \E method \in Methods, bot_made \in BOOLEAN : chatbot(method, bot_made)
       /\ UNCHANGED <<scorer_vars, reducer_vars, risk_vars, ranker_vars, concurrent_vars>>
    \/ /\ \E engine_made \in BOOLEAN : dashboard(engine_made)
       /\ UNCHANGED <<scorer_vars, reducer_vars, risk_vars, ranker_vars, concurrent_vars>>
    \/ /\ \E method \in Methods, form \in Ratings : review(method, form)
       /\ UNCHANGED <<scorer_vars, reducer_vars, risk_vars, ranker_vars, concurrent_vars>>

SessionSpec == SessionInit /\ [][SessionNext]_vars

(***************************************************************************)
(* Claims about predict_crops_simple (checked under ScorerSpec).           *)
(***************************************************************************)
ReturnedNames == {sp_ret[i].name : i \in 1..Len(sp_ret)}
CatalogIndex(crop) == CHOOSE i \in 1..Len(CropOrder) : CropOrder[i] = crop

\* C1: every confidence the scorer returns lies in [0,100], and the points
\* summed for any single crop (before the clamp of line 95) never exceed 100.
C1_ConfidenceInRange ==
    sp_pc = "done" =>
        /\ \A i \in 1..Len(sp_ret) : sp_ret[i].confidence >= 0 /\ sp_ret[i].confidence <= 100
        /\ \A crop \in Crops : scores[crop] >= 0 /\ scores[crop] <= 100
        /\ \A crop \in Crops : Score(crops_db[crop], sp_in) <= 100

\* C1 witness: a call returned a crop with the full budget of 100 points.
C1_Witness ==
    sp_pc = "done" /\ \E i \in 1..Len(sp_ret) : sp_ret[i].confidence = 100

\* The precondition of C2 in the claim's words: N, P, K, temperature and pH
\* inside the crop's ranges, rainfall at least its minimum, soil type and
\* season admissible.
FullMatch(crop, in) ==
    LET req == crops_db[crop]
    IN  /\ req.n_range[1] * 10 <= in.n /\ in.n <= req.n_range[2] * 10
        /\ req.p_range[1] * 10 <= in.p /\ in.p <= req.p_range[2] * 10
        /\ req.k_range[1] * 10 <= in.k /\ in.k <= req.k_range[2] * 10
        /\ req.temp_range[1] * 10 <= in.temperature
        /\ in.temperature <= req.temp_range[2] * 10
        /\ req.ph_range[1] <= in.ph /\ in.ph <= req.ph_range[2]
        /\ in.rainfall >= req.rainfall_min * 10
        /\ in.soil_type \in req.soils
        /\ in.season \in req.seasons

\* C2: a crop whose whole requirement profile the input matches scores
\* exactly 100 (and is returned with confidence 100 when it is returned).
C2_FullMatchScores100 ==
    sp_pc = "done" =>
        \A crop \in Crops :
            FullMatch(crop, sp_in) =>
                /\ scores[crop] = 100
                /\ \A i \in 1..Len(sp_ret) :
                       sp_ret[i].name = crop => sp_ret[i].confidence = 100

\* C2 witness: a call returned for an input that fully matches a crop, with
\* one of the numeric inputs on a bound of that crop's range.
C2_Witness ==
    /\ sp_pc = "done"
    /\ \E crop \in Crops :
           /\ FullMatch(crop, sp_in)
           /\ sp_in.n = crops_db[crop].n_range[1] * 10

\* The points of C3, criterion by criterion, as the claim states them.
C3_Expected(crop, in) ==
    LET req == crops_db[crop]
        lo(r) == r[1] * 10
        hi(r) == r[2] * 10
        nPts == IF lo(req.n_range) <= in.n /\ in.n <= hi(req.n_range) THEN 15 ELSE 0
        pPts == IF lo(req.p_range) <= in.p /\ in.p <= hi(req.p_range) THEN 12 ELSE 0
        kPts == IF lo(req.k_range) <= in.k /\ in.k <= hi(req.k_range) THEN 13 ELSE 0
        \* |t - midpoint| < 5 with t in tenths: |20 t - 100 (lo + hi)| < 1000
        tPts == IF lo(req.temp_range) <= in.temperature /\ in.temperature <= hi(req.temp_range)
                THEN 20
                ELSE IF Abs(20 * in.temperature - 100 * (req.temp_range[1] + req.temp_range[2])) < 1000
                THEN 10 ELSE 0
        \* rainfall >= 0.7 x minimum with rainfall in tenths: 10 r >= 70 min
        rPts == IF in.rainfall >= 10 * req.rainfall_min THEN 15
                ELSE IF 10 * in.rainfall >= 70 * req.rainfall_min THEN 8 ELSE 0
        \* |pH - midpoint| < 0.5 with pH and the range in tenths
        hPts == IF req.ph_range[1] <= in.ph /\ in.ph <= req.ph_range[2] THEN 10
                ELSE IF Abs(2 * in.ph - (req.ph_range[1] + req.ph_range[2])) < 10
                THEN 5 ELSE 0
        sPts == IF in.soil_type \in req.soils THEN 10 ELSE 0
        ePts == IF in.season \in req.seasons THEN 5 ELSE 0
    IN  nPts + pPts + kPts + tPts + rPts + hPts + sPts + ePts

\* C3: the score of every crop is the sum of the independent criterion
\* points N 15, P 12, K 13, temperature 20/10/0, rainfall 15/8/0,
\* pH 10/5/0, soil 10, season 5.
C3_ScoreIsSumOfCriteria ==
    sp_pc = "done" =>
        /\ \A crop \in Crops : scores[crop] = C3_Expected(crop, sp_in)
        /\ \A i \in 1..Len(sp_ret) :
               sp_ret[i].confidence = C3_Expected(sp_ret[i].name, sp_in)

\* C3 witness: a returned crop took the rainfall partial credit exactly on
\* its threshold of 0.7 x minimum, together with in-range and out-of-range
\* criteria.
C3_Witness ==
    /\ sp_pc = "done"
    /\ \E i \in 1..Len(sp_ret) :
           LET req == crops_db[sp_ret[i].name]
           IN  /\ sp_in.rainfall = req.rainfall_min * 7
               /\ InRange(sp_in.n, req.n_range)
               /\ ~InRange(sp_in.k, req.k_range)
               /\ sp_ret[i].confidence > 8

\* C4 as stated: the output holds one scored entry for every crop of the
\* catalog, the selection of the top K being left to the caller.
C4_AllCropsReturned ==
    sp_pc = "done" => Len(sp_ret) = Len(CropOrder) /\ ReturnedNames = Crops

\* C4 as amended: every crop is scored, but the output holds exactly three
\* entries, three different crops with their scores, and no crop left out
\* scores more than a returned one: the scorer itself selects the top 3.
C4_TopThreeReturned ==
    sp_pc = "done" =>
        /\ DOMAIN scores = Crops
        /\ Len(sp_ret) = 3
        /\ Cardinality(ReturnedNames) = 3
        /\ \A i \in 1..Len(sp_ret) :
               sp_ret[i].name \in Crops /\ sp_ret[i].confidence = scores[sp_ret[i].name]
        /\ \A crop \in Crops \ ReturnedNames :
               \A i \in 1..Len(sp_ret) : scores[crop] <= sp_ret[i].confidence

\* C4 witness: a call returned and left out a crop with a positive score.
C4_Witness ==
    /\ sp_pc = "done"
    /\ Len(sp_ret) = 3
    /\ \E crop \in Crops \ ReturnedNames : scores[crop] > 0

\* C5: the output is ordered by non-increasing score, crops with equal
\* score in catalog order; a crop left out scores less than every returned
\* one or ties with it and comes later in the catalog.
C5_StableDescendingOrder ==
    sp_pc = "done" =>
        /\ \A i, j \in 1..Len(sp_ret) :
               i < j =>
                   \/ sp_ret[i].confidence > sp_ret[j].confidence
                   \/ /\ sp_ret[i].confidence = sp_ret[j].confidence
                      /\ CatalogIndex(sp_ret[i].name) < CatalogIndex(sp_ret[j].name)
        /\ \A crop \in Crops \ ReturnedNames :
               \A i \in 1..Len(sp_ret) :
                   \/ scores[crop] < sp_ret[i].confidence
                   \/ /\ scores[crop] = sp_ret[i].confidence
                      /\ CatalogIndex(crop) > CatalogIndex(sp_ret[i].name)

\* C5 witness: more than three crops tie for a positive top score, the
\* first of them not being the first crop of the catalog.
C5_Witness ==
    /\ sp_pc = "done"
    /\ Len(sp_ret) = 3
    /\ sp_ret[1].confidence > 0
    /\ sp_ret[1].name # CropOrder[1]
    /\ Cardinality({crop \in Crops : scores[crop] = sp_ret[1].confidence}) > 3

(***************************************************************************)
(* Claims about the classifier reduction (checked under ReducerSpec).      *)
(***************************************************************************)
SelectedIndices == {top_3_indices[i] : i \in 1..Len(top_3_indices)}

\* C6: the reduction returns the 3 classes with the largest probabilities
\* in non-increasing probability order, each with its label and with
\* confidence the two-decimal value nearest to probability x 100; and
\* [0.1, 0.7, 0.2] over [A, B, C] yields [(B,70.0), (C,20.0), (A,10.0)].
C6_TopThreeByProbability ==
    rd_pc = "done" =>
        /\ Len(top_3_indices) = 3 /\ Len(top_3_crops) = 3
        /\ Cardinality(SelectedIndices) = 3
        /\ SelectedIndices \subseteq 1..Len(probabilities)
        /\ \A i \in 1..2 :
               probabilities[top_3_indices[i]] >= probabilities[top_3_indices[i + 1]]
        /\ \A c \in (1..Len(probabilities)) \ SelectedIndices :
               \A i \in 1..3 : probabilities[c] <= probabilities[top_3_indices[i]]
        /\ \A i \in 1..3 :
               /\ top_3_crops[i].name = ClassLabels[top_3_indices[i]]
               /\ Abs(10 * top_3_crops[i].confidence - probabilities[top_3_indices[i]]) <= 5
        /\ probabilities = <<10000, 70000, 20000>> =>
               top_3_crops = <<[name |-> "B", confidence |-> 7000],
                               [name |-> "C", confidence |-> 2000],
                               [name |-> "A", confidence |-> 1000]>>

\* C6 witness: the reduction ran on the example vector [0.1, 0.7, 0.2].
C6_Witness ==
    /\ rd_pc = "done"
    /\ probabilities = <<10000, 70000, 20000>>
    /\ top_3_crops[1].name = "B"

\* C7 as stated: classes of equal probability are taken in ascending class
\* index, both in entering the top 3 and in their order in the result.
C7_TiesByAscendingIndex ==
    rd_pc = "done" =>
        /\ \A i, j \in 1..Len(top_3_indices) :
               (i < j /\ probabilities[top_3_indices[i]] = probabilities[top_3_indices[j]])
                   => top_3_indices[i] < top_3_indices[j]
        /\ \A c \in (1..Len(probabilities)) \ SelectedIndices :
               \A i \in 1..Len(top_3_indices) :
                   probabilities[c] = probabilities[top_3_indices[i]] => c > top_3_indices[i]

(***************************************************************************)
(* Claims about calculate_risk_scores (checked under RiskSpec).            *)
(***************************************************************************)
\* Live weather is unavailable: empty location, no API key, or a failed
\* lookup (an exception or a status other than 200).
WeatherUnavailable ==
    \/ rk_in.city = ""
    \/ ~rk_in.api_key
    \/ rk_in.lookup.kind \in {"error", "status"}

Returns == "drought_risk" \in DOMAIN rk_ret

\* x is num/den rounded to the nearest integer, a half to the even one
IsRounded(x, num, den) ==
    \/ Abs(2 * (x * den - num)) < den
    \/ Abs(2 * (x * den - num)) = den /\ x % 2 = 0

\* x is min(100, num/den rounded)
IsRoundedCapped(x, num, den) ==
    \/ x <= 100 /\ IsRounded(x, num, den)
    \/ x = 100 /\ num > 100 * den

\* The scores of C9 as exact fractions, with temp = historical temperature
\* and humidity = 50: drought in twentieths, flood in five-hundredths.
C9_Drought20 ==
    (IF rk_in.hist_temp > 250 THEN (rk_in.hist_temp - 250) * 4 ELSE 0)
    + 500 + (IF rk_in.hist_rainfall < 5000 THEN 400 ELSE 0)
C9_Flood500 == rk_in.hist_rainfall + 7500

\* C9 as stated: without live weather the call never raises, uses the
\* historical temperature and humidity 50, and returns
\* drought_risk = round(max(0,temp-25)*2 + max(0,100-humidity)*0.5 + 20 if
\* rainfall < 500) and flood_risk = round(rainfall/50 + humidity*0.3).
C9_FallbackScoresUncapped ==
    (rk_pc = "done" /\ WeatherUnavailable) =>
        /\ Returns
        /\ rk_ret.current_temp = rk_in.hist_temp
        /\ rk_ret.current_humidity = 500
        /\ IsRounded(rk_ret.drought_risk, C9_Drought20, 20)
        /\ IsRounded(rk_ret.flood_risk, C9_Flood500, 500)

\* C9 as amended: the same, each score being the rounded value capped at
\* 100; rainfall 300 and temperature 30 give drought_risk 55, flood_risk 21.
C9_FallbackScores ==
    (rk_pc = "done" /\ WeatherUnavailable) =>
        /\ Returns
        /\ rk_ret.current_temp = rk_in.hist_temp
        /\ rk_ret.current_humidity = 500
        /\ IsRoundedCapped(rk_ret.drought_risk, C9_Drought20, 20)
        /\ IsRoundedCapped(rk_ret.flood_risk, C9_Flood500, 500)
        /\ (rk_in.hist_rainfall = 3000 /\ rk_in.hist_temp = 300) =>
               rk_ret.drought_risk = 55 /\ rk_ret.flood_risk = 21

\* C9 witness: rainfall 300 and temperature 30 with a location and an API
\* key but a failed lookup gave 55 and 21.
C9_Witness ==
    /\ rk_pc = "done"
    /\ rk_in.city # "" /\ rk_in.api_key /\ rk_in.lookup.kind = "error"
    /\ rk_in.hist_rainfall = 3000 /\ rk_in.hist_temp = 300
    /\ rk_ret.drought_risk = 55 /\ rk_ret.flood_risk = 21

\* C10 as stated: whatever the inputs, negative ones included, the returned
\* drought_risk and flood_risk are both within [0,100].
C10_RiskWithinBounds ==
    (rk_pc = "done" /\ Returns) =>
        /\ rk_ret.drought_risk >= 0 /\ rk_ret.drought_risk <= 100
        /\ rk_ret.flood_risk >= 0 /\ rk_ret.flood_risk <= 100

(***************************************************************************)
(* Claims about POST /predictcrop (checked under AppSpec).                 *)
(***************************************************************************)
\* The last request was a well-formed prediction request of a logged-in
\* user.
PredictionRequested ==
    /\ request.route = "predictcrop"
    /\ request.served
    /\ request.form = "ok"

\* The trained classifier was absent or failed to load, or gave no
\* probability vector, or one too short for three classes.
ClassifierUnusable ==
    \/ model_bundle = "empty"
    \/ request.classifier \in {"raises", "short"}

\* C8 as stated: when the classifier is absent, fails to load or gives no
\* usable probabilities, the prediction request still produces a ranked
\* crop list (from the rule-based scorer) instead of ending without
\* recommendations.
C8_FallbackToRuleBased ==
    (PredictionRequested /\ ClassifierUnusable) =>
        /\ response.kind = "results"
        /\ Len(response.predictions) > 0

(***************************************************************************)
(* Claims about get_risk_adjusted_crops (checked under RankerSpec).        *)
(***************************************************************************)
\* The spellings of the crop names the drought rule names.
DroughtRaised == {"Millets", "millets", "MILLETS", "Pulses", "pulses", "PULSES",
                  "Maize", "maize", "MAIZE"}
DroughtLowered == {"Rice", "rice", "RICE", "Cotton", "cotton", "COTTON"}

\* The i-th dict of the list the caller passed to the first call.
Passed(i) == ra_in.predictions[i]

\* C11: with drought_risk above 60 and flood_risk not above 70, millets,
\* pulses and maize (in any case) are adjusted by +15, rice and cotton by
\* -20 and every other crop by 0; with drought_risk at most 60 and
\* flood_risk at most 70 every crop is adjusted by 0.  With drought 70 and
\* flood 0, Millets at 60 becomes 75 and Rice at 80 becomes 60.
C11_DroughtAdjustment ==
    (ra_pc = "once" /\ ra_in.risk_scores.flood_risk <= 70) =>
        \A i \in 1..Len(ra_in.predictions) :
            /\ ra_in.risk_scores.drought_risk > 60 =>
                   /\ Passed(i).name \in DroughtRaised => ra_adj[i] = 15
                   /\ Passed(i).name \in DroughtLowered => ra_adj[i] = -20
                   /\ Passed(i).name \notin DroughtRaised \cup DroughtLowered =>
                          ra_adj[i] = 0
            /\ ra_in.risk_scores.drought_risk <= 60 => ra_adj[i] = 0
            /\ (ra_in.risk_scores = [drought_risk |-> 70, flood_risk |-> 0]
                    /\ Passed(i) = [name |-> "Millets", confidence |-> 6000]) =>
                   ra_dicts[i].risk_adjusted_confidence = 7500
            /\ (ra_in.risk_scores = [drought_risk |-> 70, flood_risk |-> 0]
                    /\ Passed(i) = [name |-> "Rice", confidence |-> 8000]) =>
                   ra_dicts[i].risk_adjusted_confidence = 6000

\* Drought 70, flood 0: Millets at 60 and Rice at 80 have been adjusted.
C11_Witness ==
    /\ ra_pc = "once"
    /\ ra_in.risk_scores = [drought_risk |-> 70, flood_risk |-> 0]
    /\ ra_in.predictions = <<[name |-> "Millets", confidence |-> 6000],
                             [name |-> "Rice", confidence |-> 8000]>>
    /\ ra_adj = <<15, -20>>
    /\ ra_dicts[1].risk_adjusted_confidence = 7500
    /\ ra_dicts[2].risk_adjusted_confidence = 6000

\* The spellings of the crop names the flood rule names.
FloodRaised == {"Rice", "rice", "RICE"}
FloodLowered == {"Pulses", "pulses", "PULSES", "Maize", "maize", "MAIZE"}

\* C12: with drought_risk above 60 and flood_risk above 70, a crop both
\* rules name gets the flood adjustment alone (rice +20, pulses and maize
\* -25), never the sum of the two; millets and cotton, which the flood rule
\* does not name, keep the drought adjustment (+15 and -20).
C12_FloodOverridesDrought ==
    (/\ ra_pc = "once"
     /\ ra_in.risk_scores.drought_risk > 60
     /\ ra_in.risk_scores.flood_risk > 70) =>
        \A i \in 1..Len(ra_in.predictions) :
            /\ Passed(i).name \in FloodRaised => ra_adj[i] = 20
            /\ Passed(i).name \in FloodLowered => ra_adj[i] = -25
            /\ Passed(i).name \in {"Millets", "millets", "MILLETS"} => ra_adj[i] = 15
            /\ Passed(i).name \in {"Cotton", "cotton", "COTTON"} => ra_adj[i] = -20
            /\ ra_dicts[i].risk_adjusted_confidence =
                   Max(0, Min(10000, Passed(i).confidence + 100 * ra_adj[i]))

\* Both thresholds are passed and the list holds Rice and Pulses, which
\* both rules name.
C12_Witness ==
    /\ ra_pc = "once"
    /\ ra_in.risk_scores = [drought_risk |-> 70, flood_risk |-> 71]
    /\ Len(ra_in.predictions) = 2
    /\ Passed(1).name = "Rice"
    /\ Passed(2).name = "Pulses"
    /\ ra_adj = <<20, -25>>

\* C13: risk_adjusted_confidence is confidence plus the adjustment, clamped
\* to [0, 100]: a sum below 0 gives 0 and a sum above 100 gives 100.
\* Confidence 5 with an adjustment of -25 gives 0.
C13_ClampedToRange ==
    ra_pc = "once" =>
        \A i \in 1..Len(ra_in.predictions) :
            LET sum == Passed(i).confidence + 100 * ra_adj[i]
                result == ra_dicts[i].risk_adjusted_confidence
            IN  /\ sum < 0 => result = 0
                /\ sum > 10000 => result = 10000
                /\ (0 <= sum /\ sum <= 10000) => result = sum
                /\ (Passed(i).confidence = 500 /\ ra_adj[i] = -25) => result = 0

\* Pulses at 5 is lowered by 25 to 0, Millets at 90 is raised by 15 to 100.
C13_Witness ==
    /\ ra_pc = "once"
    /\ ra_in.predictions = <<[name |-> "Pulses", confidence |-> 500],
                             [name |-> "Millets", confidence |-> 9000]>>
    /\ ra_adj = <<-25, 15>>
    /\ ra_dicts[1].risk_adjusted_confidence = 0
    /\ ra_dicts[2].risk_adjusted_confidence = 10000

\* The risk-adjusted confidence of the i-th crop of the returned list.
ReturnedKey(i) == ra_dicts[ra_ret[i]].risk_adjusted_confidence

\* C14: the returned list is a permutation of the input (no crop added or
\* dropped), in non-increasing order of risk_adjusted_confidence, and crops
\* with equal risk_adjusted_confidence keep their input order.
C14_StablePermutation ==
    ra_pc = "once" =>
        /\ Len(ra_ret) = Len(ra_in.predictions)
        /\ \A id \in 1..Len(ra_in.predictions) :
               Cardinality({i \in 1..Len(ra_ret) : ra_ret[i] = id}) = 1
        /\ \A i \in 1..Len(ra_ret) :
               /\ ra_dicts[ra_ret[i]].name = Passed(ra_ret[i]).name
               /\ ra_dicts[ra_ret[i]].confidence = Passed(ra_ret[i]).confidence
        /\ \A i, j \in 1..Len(ra_ret) :
               i < j =>
                   /\ ReturnedKey(i) >= ReturnedKey(j)
                   /\ ReturnedKey(i) = ReturnedKey(j) => ra_ret[i] < ra_ret[j]

\* Rice at 80 is lowered to 60, level with Wheat at 60 that came after it,
\* and stays first.
C14_Witness ==
    /\ ra_pc = "once"
    /\ ra_in.predictions = <<[name |-> "Rice", confidence |-> 8000],
                             [name |-> "Wheat", confidence |-> 6000]>>
    /\ ReturnedKey(1) = 6000
    /\ ReturnedKey(2) = 6000
    /\ ra_ret = <<1, 2>>

\* C15: applying the ranker with the same risk scores to the list it
\* returned gives the same order, the same confidence and the same
\* risk_adjusted_confidence for every crop: adjustments do not accumulate.
C15_Idempotent ==
    ra_pc = "twice" =>
        /\ Len(ra_ret) = Len(ra_first)
        /\ \A i \in 1..Len(ra_ret) :
               /\ ra_dicts[ra_ret[i]].name = ra_first[i].name
               /\ ra_dicts[ra_ret[i]].confidence = ra_first[i].confidence
               /\ ra_dicts[ra_ret[i]].risk_adjusted_confidence =
                      ra_first[i].risk_adjusted_confidence

\* The second application has run on a list whose two crops the first one
\* adjusted and swapped.
C15_Witness ==
    /\ ra_pc = "twice"
    /\ ra_in.risk_scores = [drought_risk |-> 70, flood_risk |-> 0]
    /\ ra_in.predictions = <<[name |-> "Rice", confidence |-> 8000],
                             [name |-> "Millets", confidence |-> 6000]>>
    /\ ra_first = <<[name |-> "Millets", confidence |-> 6000,
                     risk_adjusted_confidence |-> 7500],
                    [name |-> "Rice", confidence |-> 8000,
                     risk_adjusted_confidence |-> 6000]>>
    /\ ra_adj = <<15, -20>>

\* C16: the ranker is pure: after a call the caller's list holds the same
\* crop records in the same order, each with the same fields and values as
\* before the call.
C16_InputUnchanged ==
    ra_pc \in {"once", "twice"} =>
        /\ Len(ra_dicts) = Len(ra_in.predictions)
        /\ \A i \in 1..Len(ra_dicts) :
               /\ DOMAIN ra_dicts[i] = DOMAIN Passed(i)
               /\ \A key \in DOMAIN Passed(i) : ra_dicts[i][key] = Passed(i)[key]

\* The crop names of a list, in its order.
Names(list) == [i \in 1..Len(list) |-> list[i].name]

\* The crops of the Prediction row stored last, in its order.
StoredNames ==
    <<Last(predictions).crop1, Last(predictions).crop2, Last(predictions).crop3>>

\* The order get_risk_adjusted_crops gives to the crops shown, under the
\* risk scores shown.
RankedNames == Names(RankerReturn(response.predictions, response.risk_data))

\* C17 as stated: in every successful prediction request the crop list
\* shown and stored is the output of the risk-adjusted ranker, ordered by
\* risk_adjusted_confidence.
C17_ShownListIsRanked ==
    response.kind = "results" =>
        /\ Names(response.predictions) = RankedNames
        /\ StoredNames = RankedNames

\* C17: in every successful prediction request the crop list shown and
\* stored is the classifier's top three passed through unchanged: it is
\* ordered by raw confidence, carries no risk_adjusted_confidence, and the
\* risk scores are stored and shown beside it without reordering it, also
\* when drought_risk > 60 or flood_risk > 70.
C17_ShownListIsPassThrough ==
    response.kind = "results" =>
        /\ Len(response.predictions) = 3
        /\ \A i \in 1..3 :
               /\ DOMAIN response.predictions[i] = {"name", "confidence"}
               /\ \A j \in 1..3 :
                      i < j => response.predictions[i].confidence
                                   >= response.predictions[j].confidence
        /\ StoredNames = Names(response.predictions)
        /\ Last(predictions).confidence1 = response.predictions[1].confidence
        /\ Last(predictions).confidence2 = response.predictions[2].confidence
        /\ Last(predictions).confidence3 = response.predictions[3].confidence
        /\ Last(predictions).drought_risk = response.risk_data.drought_risk
        /\ Last(predictions).flood_risk = response.risk_data.flood_risk

\* A successful request under a drought risk above 60 whose shown order is
\* not the one the ranker gives.
C17_Witness ==
    /\ response.kind = "results"
    /\ response.risk_data.drought_risk > 60
    /\ Names(response.predictions) = <<"Rice", "Wheat", "Maize">>
    /\ RankedNames = <<"Rice", "Maize", "Wheat">>
    /\ StoredNames = <<"Rice", "Wheat", "Maize">>

(***************************************************************************)
(* More claims about predict_crops_simple (checked under ScorerSpec).      *)
(***************************************************************************)
\* An input outside the domain: a negative nutrient level or rainfall, or a
\* pH outside 0-14 (in tenths).
OutOfDomain(in) ==
    \/ in.n < 0
    \/ in.p < 0
    \/ in.k < 0
    \/ in.rainfall < 0
    \/ in.ph < 0
    \/ in.ph > 140

\* C18: an out-of-domain input to the rule-based scorer is rejected before
\* any scoring: no score is computed and no crop is returned.
C18_InvalidInputRejected ==
    (sp_pc = "done" /\ OutOfDomain(sp_in)) =>
        /\ scores = NoScores
        /\ sp_ret = <<>>

(***************************************************************************)
(* A claim about the catalog's ranges (checked under ScorerSweepSpec).     *)
(***************************************************************************)
\* C20: for every crop of the catalog the near-miss credits for
\* temperature (+10) and pH (+5) are never given: every temperature range
\* is at least 10 wide and every pH range at least 1.0 wide, so a value
\* outside a range is never within 5 (0.5) of its midpoint; temperature
\* contributes 0 or 20 and pH 0 or 10.
C20_NoPartialCredit ==
    sp_pc = "done" =>
        \A crop \in Crops :
            LET req == crops_db[crop]
                others == NPKPoints(req, sp_in.n, sp_in.p, sp_in.k)
                          + RainfallPoints(req, sp_in.rainfall)
                          + SoilPoints(req, sp_in.soil_type)
                          + SeasonPoints(req, sp_in.season)
                temperature_credit ==
                    IF req.temp_range[1] * 10 <= sp_in.temperature
                           /\ sp_in.temperature <= req.temp_range[2] * 10
                    THEN 20 ELSE 0
                ph_credit ==
                    IF req.ph_range[1] <= sp_in.ph /\ sp_in.ph <= req.ph_range[2]
                    THEN 10 ELSE 0
            IN  /\ req.temp_range[2] - req.temp_range[1] >= 10
                /\ req.ph_range[2] - req.ph_range[1] >= 10
                /\ scores[crop] = Min(100, others + temperature_credit + ph_credit)

\* Temperature 25.1 and pH 7.6 are just outside Wheat's ranges (15-25 and
\* 6.0-7.5) and earn Wheat nothing: its points are those of the other
\* criteria.
C20_Witness ==
    /\ sp_pc = "done"
    /\ sp_in.temperature = 251
    /\ sp_in.ph = 76
    /\ scores["Wheat"] = NPKPoints(crops_db["Wheat"], sp_in.n, sp_in.p, sp_in.k)
                             + RainfallPoints(crops_db["Wheat"], sp_in.rainfall)
                             + SoilPoints(crops_db["Wheat"], sp_in.soil_type)
                             + SeasonPoints(crops_db["Wheat"], sp_in.season)

(***************************************************************************)
(* Claims about concurrent calls of get_risk_adjusted_crops (checked under *)
(* ConcurrentSpec).                                                        *)
(***************************************************************************)
\* C19: two interleaved calls with different risk scores on the same crop
\* records each return what the call would return if it ran alone, with
\* nothing of the other call's risk scores in it.
C19_ConcurrentCallsIsolated ==
    \A c \in Calls :
        cc_pc[c] = "done" =>
            cc_ret[c] = RankerReturn(cc_in.predictions, cc_in.risk_scores[c])

(***************************************************************************)
(* Claims about the lazy getters of app.py (checked under AppSpec).        *)
(***************************************************************************)
\* The last request was a POST to /predictcrop.
PostedPrediction ==
    /\ request.route = "predictcrop"
    /\ request.method = "POST"

WarmingUp ==
    /\ response.kind = "redirect"
    /\ response.to = "predictcrop"
    /\ response.flash = "AI Prediction system is warming up."

\* C21 as stated: once the model load has failed, every later POST to
\* /predictcrop is redirected with the 'warming up' message.
C21_EveryPostWarmsUp ==
    (model_bundle = "empty" /\ PostedPrediction) => WarmingUp

\* Once the load has failed the bundle stays empty and no Prediction is
\* saved, whatever the model file does.
StickyFailure ==
    model_bundle = "empty" =>
        /\ model_bundle' = "empty"
        /\ predictions' = predictions

\* A request that reaches lines 307 and 341 while _crop_collection or
\* _risk_engine is None (never set, or left None by a failure) tries the
\* initialisation again, and the global follows the attempt.
GettersRetry ==
    "engine" \in DOMAIN request' =>
        /\ ~risk_engine.made =>
               /\ request'.engine \in {"made", "failed"}
               /\ risk_engine'.made <=> request'.engine = "made"
        /\ crop_collection = "None" =>
               /\ request'.collection \in {"made", "failed"}
               /\ crop_collection' = "connected" <=> request'.collection = "made"

\* C21: a failed model load is sticky: once get_model_bundle has failed
\* it keeps the empty bundle and never loads again, so every later POST to
\* /predictcrop of a logged-in user whose numeric fields parse is
\* redirected with the 'warming up' message, and no later request saves a
\* Prediction, even if the model file becomes loadable; get_risk_engine
\* and get_crop_collection try again on every call after a failure.
C21_StickyModelLoadFailure ==
    /\ []((model_bundle = "empty" /\ PostedPrediction /\ request.served
              /\ request.form # "bad number") => WarmingUp)
    /\ [][StickyFailure]_vars
    /\ [][GettersRetry]_vars

\* The model file is loadable again, and a well-formed POST of a logged-in
\* user is still answered with 'warming up'.
C21_Witness ==
    /\ model_bundle = "empty"
    /\ model_file = "present"
    /\ PostedPrediction
    /\ request.served
    /\ request.form = "ok"
    /\ WarmingUp
    /\ predictions = <<>>

(***************************************************************************)
(* Claims about the session (checked under SessionSpec).                   *)
(***************************************************************************)
GatedRoutes == {"predictcrop", "chatbot", "dashboard", "review"}

\* The last request went to a gated route: it was served exactly if the
\* session holds a user_id, and otherwise only redirected to the login page.
GateHolds ==
    request.route \in GatedRoutes =>
        /\ request.served <=> session.logged_in
        /\ ~request.served => (response.kind = "redirect" /\ response.to = "login")

\* A Prediction or Feedback row is written only by a served request of a
\* session that holds a user_id, and belongs to that user.
WritesNeedSession ==
    /\ predictions' # predictions =>
           /\ session.logged_in /\ session' = session
           /\ request'.route = "predictcrop" /\ request'.served
           /\ Last(predictions').user_id = session.user_id
    /\ feedbacks' # feedbacks =>
           /\ session.logged_in /\ session' = session
           /\ request'.route = "review" /\ request'.served
           /\ Last(feedbacks').user_id = session.user_id

\* The session gets a user_id only from a login that succeeds, keeps what
\* it has when a login fails, and loses it at logout.
SessionFollowsLogin ==
    /\ (session' # session /\ session'.logged_in) =>
           /\ request'.route = "login"
           /\ response' = [kind |-> "redirect", to |-> "dashboard", flash |-> "Welcome back"]
           /\ \E u \in users : u.id = session'.user_id
    /\ (request'.route = "login" /\ response'.kind = "page") => session' = session
    /\ request'.route = "logout" => ~session'.logged_in
    /\ request'.route \notin {"login", "logout"} => session' = session

====
